---- MODULE Spec2Model ----
(***************************************************************************)
(* Request-scoped telemetry pipeline of node-host: the LogBuffer and the   *)
(* EnrichingLogger (src/host/logging.ts), the EventEmitter                 *)
(* (src/host/emitter.ts) and the request context orchestrator              *)
(* (src/host/context.ts), as one state machine.                            *)
(*                                                                         *)
(* Log entries and events are represented by their sequence numbers (the   *)
(* n-th accepted collect / emit); the length of the serialized JSON is an  *)
(* input of the call.  A promise of the #flusher chain is a node of        *)
(* `chain` (LogBuffer) or of `rounds` (EventEmitter).                      *)
(***************************************************************************)
EXTENDS Integers, Sequences, FiniteSets, TLC

\* ---------------------------------------------------------------- bounds
\* number of logger calls made by the caller in the LogBuffer specifications
MaxCollect == 6
\* number of logger calls when the caller only logs (SpecIdle)
MaxIdleCollect == 9
\* number of logger calls when the minimum level varies (SpecLogger)
MaxLoggerCalls == 3
\* number of emit calls, and of flush rounds explicit flushes may add up to
MaxEmit == 3
MaxRounds == 2
\* number of logger calls, and of emit calls, in a context (SpecContext)
MaxContextLogs == 2
MaxContextEmits == 1

\* number of emit calls in a burst to one topic (SpecBurst)
MaxBurst == 66

\* number of log transports given to createContext (SpecMulticast)
MaxLoggers == 3

\* ------------------------------------------------------ program constants
\* logging.ts:98  numericLogLevel < 2
FlushSeverity == 2
\* logging.ts:98  this.#entries.length > 8
MaxBufferedEntries == 8
\* logging.ts:98  this.#size > 64000
MaxBufferedSize == 64000
\* logging.ts:14  level used when no minimumLogLevel is configured
DefaultLevel == 5

\* serialized lengths (json.length) a collect call may produce
Lens == {100, 32001}

\* logging.ts:13  the order makeLogger looks the minimum level up in
LevelOrder == <<"fatal", "error", "warning", "info", "debug", "trace">>

LogLevels == {LevelOrder[i] : i \in 1..Len(LevelOrder)}

\* Array.prototype.indexOf: zero-based position, -1 when absent
IndexOf(seq, x) ==
  IF \E i \in 1..Len(seq) : seq[i] = x
  THEN (CHOOSE i \in 1..Len(seq) : seq[i] = x /\ \A j \in 1..(i - 1) : seq[j] # x) - 1
  ELSE -1

\* logging.ts:12-14  numeric threshold of a logger; "none" is an undefined
\* minimumLogLevel
makeLoggerLevelOffByOne(minimumLogLevel) ==
  IF minimumLogLevel # "none" THEN IndexOf(LevelOrder, minimumLogLevel) + 1 ELSE DefaultLevel

makeLoggerLevel(minimumLogLevel) ==
  IF minimumLogLevel # "none" THEN IndexOf(LevelOrder, minimumLogLevel) ELSE DefaultLevel

\* the six leveled methods of EnrichingLogger
Methods == {"trace", "debug", "info", "warn", "error", "fatal"}

\* logging.ts:177-257  the numeric severity each method passes to collect
MethodNumeric(m) ==
  CASE m = "trace" -> 5
    [] m = "debug" -> 4
    [] m = "info" -> 3
    [] m = "warn" -> 2
    [] m = "error" -> 1
    [] m = "fatal" -> 0

\* logging.ts:177-257  the level label each method passes to collect
MethodLabel(m) ==
  CASE m = "trace" -> "trace"
    [] m = "debug" -> "debug"
    [] m = "info" -> "debug"
    [] m = "warn" -> "debug"
    [] m = "error" -> "error"
    [] m = "fatal" -> "fatal"

\* logging.ts:178,192,206,220,234  `if (this.#level < n) return`; fatal has
\* no gate
MethodRejected(m, lvl) == m # "fatal" /\ lvl < MethodNumeric(m)

VARIABLES
  \* LogBuffer fields
  entries,          \* #entries: the buffered entries, oldest first
  size,             \* #size
  flusher,          \* #flusher: 0 (undefined) or the index of a node of chain
  asyncTransport,   \* #asyncTransport: "undefined", "true" or "false"
  timeout,          \* #timeout: TRUE iff the handle is set
  \* the runtime around the LogBuffer
  timers,           \* idle timers armed and not yet fired or cleared
  immediate,        \* the setImmediate callback of the first collect is pending
  chain,            \* the promises #flusher has held, in creation order
  sent,             \* the batches sendEntries was called with, in call order
  collected,        \* number of entries accepted by collect
  transportAsync,   \* the log transport returns a promise (TRUE) or nothing
  \* EnrichingLogger
  minimumLogLevel,  \* meta.config.minimumLogLevel given to makeLogger, or "none"
  level,            \* #level
  reserved,         \* #reservedEnrichment of the root logger (<<>>: undefined)
  custom,           \* #customEnrichment of the logger the caller holds
  logCalls,         \* number of calls of a leveled method
  lastCall,         \* the latest call of a leveled method
  \* EventEmitter fields
  emitted,          \* #emitted: topic -> buffered events (<<>>: no such key)
  esize,            \* #size
  ebytes,           \* total json.length of the events that are in #emitted
  buffered,         \* #buffered
  eflusher,         \* #flusher: 0 (undefined) or the index of a round
  deadline,         \* #deadline, in ms on the clock `now`
  publishRate,      \* #transport.publishRate
  ids,              \* #ids: the ClientInfo the emitter was made with
  \* the runtime around the EventEmitter
  rounds,           \* the promises #flusher has held: one #flushEvents each
  esent,            \* the sendEvents calls, in call order
  accepted,         \* number of events accepted by emit
  emitCalls,        \* number of calls of emit
  lastEmit,         \* the latest call of emit
  now,              \* new Date().getTime(), in ms since the emitter was made
  \* createContext
  timeoutMs,        \* timeout: the effective timeout, in ms
  loggers,          \* the publishRate of each log transport given to createContext
  logPublishRate,   \* publishRate of logTransport, once it is built
  innerAborted,     \* innerController.signal.aborted
  outerAborted,     \* outerController.signal.aborted
  timeoutHandle,    \* the timeout timer: "armed", "fired" or "cleared"
  flushHandle,      \* the fallback-abort timer: "armed", "fired" or "cleared"
  cpc,              \* where the returned flush() stands: "idle", "emitter",
                    \* "logger", "done" or "rejected"
  cAwait,           \* the promise that flush() awaits (a round, then a node)
  cRound,           \* the round the emitter's flush made for flush() (0: none yet)
  cMark             \* number of entries collected when flush() was called

logVars == <<entries, size, flusher, asyncTransport, timeout, timers, immediate,
             chain, sent, collected, transportAsync>>
loggerConfig == <<minimumLogLevel, level, reserved>>
loggerVars == <<loggerConfig, custom, logCalls, lastCall>>
emitterConfig == <<deadline, publishRate, ids>>
emitterVars == <<emitted, esize, ebytes, buffered, eflusher, emitterConfig, rounds,
                 esent, accepted, emitCalls, lastEmit>>
ctxConfig == <<timeoutMs, loggers, logPublishRate>>
ctxVars == <<ctxConfig, innerAborted, outerAborted, timeoutHandle, flushHandle, cpc,
             cAwait, cRound, cMark>>
vars == <<logVars, loggerVars, emitterVars, now, ctxVars>>

\* ------------------------------------------------------------- LogBuffer
\* The LogBuffer together with the promises and the transport it talks to, as
\* one value, so that the operations compose the way the methods call each
\* other.
LogWorld ==
  [entries |-> entries, size |-> size, flusher |-> flusher,
   asyncTransport |-> asyncTransport, timeout |-> timeout, timers |-> timers,
   immediate |-> immediate, chain |-> chain, sent |-> sent,
   collected |-> collected]

SetLogWorld(w) ==
  /\ entries' = w.entries
  /\ size' = w.size
  /\ flusher' = w.flusher
  /\ asyncTransport' = w.asyncTransport
  /\ timeout' = w.timeout
  /\ timers' = w.timers
  /\ immediate' = w.immediate
  /\ chain' = w.chain
  /\ sent' = w.sent
  /\ collected' = w.collected

\* this.#transport.sendEntries(batch, signal) called now: the transport sees
\* the batch; an asynchronous transport returns a new pending promise, which
\* becomes #flusher, a synchronous one returns nothing
sendEntriesNow(w, batch) ==
  IF transportAsync
  THEN [w EXCEPT !.sent = Append(@, batch),
                 !.chain = Append(@, [batch |-> batch, st |-> "inflight", by |-> "probe",
                                      ret |-> 0]),
                 !.flusher = Len(w.chain) + 1]
  ELSE [w EXCEPT !.sent = Append(@, batch), !.flusher = 0]

\* logging.ts:125-133  #startFlush
startFlush(w, batch) ==
  IF w.flusher # 0
  THEN [w EXCEPT !.chain = Append(@, [batch |-> batch, st |-> "chained", by |-> "probe",
                                      ret |-> 0]),
                 !.flusher = Len(w.chain) + 1]
  ELSE sendEntriesNow(w, batch)

\* logging.ts:118-121  clearTimeout of the handle
clearIdleTimer(w) ==
  IF w.timeout
  THEN [w EXCEPT !.timeout = FALSE, !.timers = w.timers - 1]
  ELSE w

\* logging.ts:122  `return await this.#flusher`: the promise a flush() call
\* that detached entries returns settles as #flusher does, read after
\* #startFlush has replaced it (0: nothing to await)
flushAwaitsPrevious(before, after) == before

flushAwaits(before, after) == after

\* LogBuffer.flush without its early return
LogBuffer_flushAlways(w) ==
  clearIdleTimer([startFlush(w, w.entries) EXCEPT !.entries = <<>>, !.size = 0])

\* logging.ts:111-123  LogBuffer.flush, up to its await; the node the call
\* created records that a flush() call made it (by) and the promise that
\* call awaits (ret)
LogBuffer_flush(w) ==
  IF Len(w.entries) = 0
  THEN w
  ELSE LET w1 == startFlush(w, w.entries)
           w2 == IF w1.flusher # 0
                 THEN [w1 EXCEPT !.chain[w1.flusher].by = "flush",
                                 !.chain[w1.flusher].ret = flushAwaits(w.flusher, w1.flusher)]
                 ELSE w1
       IN  clearIdleTimer([w2 EXCEPT !.entries = <<>>, !.size = 0])

\* logging.ts:98  the thresholds of batching mode
needsFlushAtEight(numericLogLevel, n, sz) ==
  numericLogLevel < FlushSeverity \/ n >= MaxBufferedEntries \/ sz > MaxBufferedSize

needsFlush(numericLogLevel, n, sz) ==
  numericLogLevel < FlushSeverity \/ n > MaxBufferedEntries \/ sz > MaxBufferedSize

\* a collect that arms no timer
armIdleTimerNever(w) == w

\* logging.ts:102-106  setTimeout(..., 2000): the handle is overwritten, the
\* timer it referred to stays armed
armIdleTimer(w) == [w EXCEPT !.timeout = TRUE, !.timers = w.timers + 1]

\* logging.ts:79-81  synchronous mode: send what is buffered, then reset
sendSynchronouslyKeepingEntries(w) == [w EXCEPT !.sent = Append(@, w.entries)]

sendSynchronously(w) ==
  [w EXCEPT !.sent = Append(@, w.entries), !.entries = <<>>, !.size = 0]

\* logging.ts:44-109  LogBuffer.collect
LogBuffer_collect(w, numericLogLevel, len) ==
  LET id == w.collected + 1
      w1 == [w EXCEPT !.entries = Append(@, id), !.size = @ + len, !.collected = id]
  IN  IF w1.asyncTransport = "false"
      THEN sendSynchronously(w1)
      ELSE IF w1.asyncTransport = "undefined"
      THEN [w1 EXCEPT !.asyncTransport = "true", !.immediate = TRUE]
      ELSE IF needsFlush(numericLogLevel, Len(w1.entries), w1.size)
      THEN LogBuffer_flush(w1)
      ELSE armIdleTimer(w1)

\* logging.ts:85-87  the probe leaves when a flush has started meanwhile
probeReturnsEarlyNever(w) == FALSE

probeReturnsEarly(w) == w.flusher # 0

\* the probe without the reset of #entries and #size
probeKeepingEntries(w) ==
  LET w0 == [w EXCEPT !.immediate = FALSE]
  IN  IF probeReturnsEarly(w0)
      THEN w0
      ELSE LET w1 == sendEntriesNow(w0, w0.entries)
           IN  IF transportAsync THEN w1 ELSE [w1 EXCEPT !.asyncTransport = "false"]

\* logging.ts:84-96  the setImmediate callback of the first collect
probe(w) ==
  LET w0 == [w EXCEPT !.immediate = FALSE]
  IN  IF probeReturnsEarly(w0)
      THEN w0
      ELSE LET w1 == [sendEntriesNow(w0, w0.entries)
                        EXCEPT !.entries = <<>>, !.size = 0]
           IN  IF transportAsync THEN w1 ELSE [w1 EXCEPT !.asyncTransport = "false"]

\* logging.ts:102-106  the idle timer's callback; timers of equal delay fire
\* in the order they were armed, so the one that fires is the handle's only
\* when no other is armed
idleTimerFires(w) ==
  LET own == w.timers = 1 /\ w.timeout
      w0 == [w EXCEPT !.timers = @ - 1, !.timeout = IF own THEN FALSE ELSE @]
  IN  [LogBuffer_flush(w0) EXCEPT !.timeout = FALSE]

\* how the promise held in node k of the chain has settled: a node rejects
\* with the error of the first rejected send at or before it
Outcome(k) ==
  IF k = 0 THEN <<"resolved", 0>>
  ELSE IF \E j \in 1..k : chain[j].st = "rejected"
  THEN <<"rejected", CHOOSE j \in 1..k : chain[j].st = "rejected" /\
                        \A h \in 1..(j - 1) : chain[h].st # "rejected">>
  ELSE IF chain[k].st = "resolved" THEN <<"resolved", 0>>
  ELSE <<"pending", 0>>

\* ------------------------------------------------------- EnrichingLogger
\* An object is a function from its keys to their values; an optional object
\* is <<>> (undefined) or <<o>>.
EmptyObject == <<>>

\* { ...a, ...b }
Spread(a, b) ==
  [k \in (DOMAIN a) \cup (DOMAIN b) |-> IF k \in DOMAIN b THEN b[k] ELSE a[k]]

\* what spreading an optional object contributes: `...undefined` is nothing
Spreadable(o) == IF o = <<>> THEN EmptyObject ELSE o[1]

\* the record when the custom enrichment is spread after the caller's fields
serializeCustomLast(lvl, fields, reservedEnrichment, customEnrichment) ==
  LET top == Spread([k \in {"level"} |-> lvl], Spreadable(reservedEnrichment))
      merged == Spread(Spreadable(fields), Spreadable(customEnrichment))
  IN  IF fields # <<>> \/ customEnrichment # <<>>
      THEN Spread(top, [k \in {"fields"} |-> merged])
      ELSE top

\* logging.ts:54-67  the record collect serializes, without its timestamp,
\* message and error
serialize(lvl, fields, reservedEnrichment, customEnrichment) ==
  LET top == Spread([k \in {"level"} |-> lvl], Spreadable(reservedEnrichment))
      merged == IF customEnrichment # <<>>
                THEN (IF fields # <<>>
                      THEN Spread(customEnrichment[1], fields[1])
                      ELSE customEnrichment[1])
                ELSE fields[1]
  IN  IF fields # <<>> \/ customEnrichment # <<>>
      THEN Spread(top, [k \in {"fields"} |-> merged])
      ELSE top

\* logging.ts:154-159  enrich: the custom enrichment of the derived logger
enrich(customEnrichment, fields) == <<Spread(Spreadable(customEnrichment), fields)>>

\* logging.ts:165-175  enrichReserved: the reserved enrichment of the
\* derived logger
enrichReserved(reservedEnrichment, fields) ==
  <<Spread(Spreadable(reservedEnrichment), fields)>>

\* logging.ts:10-16  makeLogger passes no enrichment to the constructor
makeLoggerReserved == <<>>

\* logging.ts:177-257  the entry a leveled method hands to the buffer, <<>>
\* when the call is filtered out
Logger_entry(m, lvl, fields, reservedEnrichment, customEnrichment) ==
  IF MethodRejected(m, lvl) THEN <<>>
  ELSE <<[level |-> MethodLabel(m), numeric |-> MethodNumeric(m),
          json |-> serialize(MethodLabel(m), fields, reservedEnrichment,
                             customEnrichment)]>>

\* logging.ts:177-257  a leveled method of the logger
Logger_call(w, m, lvl, len) ==
  IF MethodRejected(m, lvl) THEN w ELSE LogBuffer_collect(w, MethodNumeric(m), len)

\* ---------------------------------------------------------- EventEmitter
\* the topics the caller emits to, in the order Object.entries lists them
TopicOrder == <<"a", "b">>

Topics == {TopicOrder[i] : i \in 1..Len(TopicOrder)}

\* serialized lengths of an event's data (0: emitted without data)
EventLens == {0, 40000}

\* emitter.ts:49  events.length > 64
MaxTopicEvents == 64
\* emitter.ts:49  this.#size > 64000
MaxEmittedSize == 64000

NoEvents == [t \in Topics |-> <<>>]

\* The EventEmitter together with the promises and the transport it talks
\* to, as one value.
EmitWorld ==
  [emitted |-> emitted, esize |-> esize, ebytes |-> ebytes, buffered |-> buffered,
   eflusher |-> eflusher,
   rounds |-> rounds, esent |-> esent, accepted |-> accepted]

SetEmitWorld(e) ==
  /\ emitted' = e.emitted
  /\ esize' = e.esize
  /\ ebytes' = e.ebytes
  /\ buffered' = e.buffered
  /\ eflusher' = e.eflusher
  /\ rounds' = e.rounds
  /\ esent' = e.esent
  /\ accepted' = e.accepted

\* emitter.ts:37  `this.#buffered / this.#transport.publishRate > timeLeft`,
\* for a positive rate
overflow(pending, rate, timeLeft) == pending > timeLeft * rate

\* emitter.ts:75-77  the synchronous part of #flushEvents: sendEvents is
\* called for every topic of the detached buffer, in key order
RECURSIVE sendEventsCalls(_, _)
sendEventsCalls(batch, i) ==
  IF i > Len(TopicOrder) THEN <<>>
  ELSE (IF batch[TopicOrder[i]] = <<>> THEN <<>>
        ELSE <<[topic |-> TopicOrder[i], events |-> batch[TopicOrder[i]]]>>)
       \o sendEventsCalls(batch, i + 1)

\* emitter.ts:73-84  #flushEvents is invoked for round r
flushEvents(e, r) ==
  [e EXCEPT !.rounds[r].run = TRUE,
            !.rounds[r].st = [t \in Topics |->
                                IF e.rounds[r].batch[t] = <<>> THEN "none" ELSE "inflight"],
            !.esent = @ \o sendEventsCalls(e.rounds[r].batch, 1)]

\* #startFlush that never chains
EventEmitter_startFlushUnchained(e, batch) ==
  LET r == Len(e.rounds) + 1
  IN  flushEvents([e EXCEPT !.rounds = Append(@, [batch |-> batch, run |-> FALSE,
                                                  st |-> [t \in Topics |-> "none"]]),
                            !.eflusher = r], r)

\* emitter.ts:65-71  #startFlush
EventEmitter_startFlush(e, batch) ==
  LET r == Len(e.rounds) + 1
      e1 == [e EXCEPT !.rounds = Append(@, [batch |-> batch, run |-> FALSE,
                                            st |-> [t \in Topics |-> "none"]]),
                      !.eflusher = r]
  IN  IF e.eflusher # 0 THEN e1 ELSE flushEvents(e1, r)

\* emitter.ts:58-63  EventEmitter.flush, up to its await
EventEmitter_flush(e) ==
  [EventEmitter_startFlush(e, e.emitted) EXCEPT !.emitted = NoEvents, !.esize = 0,
                                                !.ebytes = 0]

\* emitter.ts:49  the thresholds of the automatic flush
needsEventFlushAtLimit(n, sz) == n >= MaxTopicEvents \/ sz > MaxEmittedSize

needsEventFlush(n, sz) == n > MaxTopicEvents \/ sz > MaxEmittedSize

\* emitter.ts:37-39  emit throws before it touches the emitter
emitOverflowCounted(e) == [e EXCEPT !.buffered = @ + 1]

emitOverflow(e) == e

\* emitter.ts:40-55  emit past the overflow check
emitAccepted(e, topic, len) ==
  LET id == e.accepted + 1
      e1 == [e EXCEPT !.emitted[topic] = Append(@, id), !.accepted = id,
                      !.ebytes = @ + len]
      e2 == IF e.emitted[topic] = <<>> THEN e1
            ELSE IF needsEventFlush(Len(e1.emitted[topic]), e1.esize)
            THEN EventEmitter_flush(e1)
            ELSE e1
  IN  [e2 EXCEPT !.buffered = @ + 1, !.esize = @ + len]

\* emitter.ts:34-56  EventEmitter.emit
EventEmitter_emit(e, topic, len, timeLeft) ==
  IF overflow(e.buffered, publishRate, timeLeft)
  THEN emitOverflow(e)
  ELSE emitAccepted(e, topic, len)

\* emitter.ts:76-80  the try/catch around sendEvents
catchesSendErrorNever == FALSE

catchesSendError == TRUE

\* how the promise held in round k has settled: #flushEvents rejects when
\* one of its per-topic functions throws, and a round chained on a rejected
\* promise never runs
RoundOutcome(k) ==
  IF k = 0 THEN "resolved"
  ELSE IF \E j \in 1..k : \E t \in Topics : rounds[j].st[t] = "threw" THEN "rejected"
  ELSE IF rounds[k].run /\ \A t \in Topics : rounds[k].st[t] \in {"none", "ok", "failed"}
  THEN "resolved"
  ELSE "pending"

\* --------------------------------------------------------------- actions
\* the caller calls a leveled method of the logger
Log(m, len) ==
  /\ SetLogWorld(Logger_call(LogWorld, m, level, len))
  /\ logCalls' = logCalls + 1
  /\ lastCall' = [method |-> m, len |-> len, fields |-> <<>>,
                  entry |-> Logger_entry(m, level, <<>>, reserved, custom)]
  /\ UNCHANGED <<transportAsync, loggerConfig, custom, emitterVars, now, ctxVars>>

\* the caller calls a leveled method of the logger it holds, with fields
LogWith(m, len, fields) ==
  /\ SetLogWorld(Logger_call(LogWorld, m, level, len))
  /\ logCalls' = logCalls + 1
  /\ lastCall' = [method |-> m, len |-> len, fields |-> fields,
                  entry |-> Logger_entry(m, level, fields, reserved, custom)]
  /\ UNCHANGED <<transportAsync, loggerConfig, custom, emitterVars, now, ctxVars>>

\* the caller derives a logger with enrich(fields) and logs through it from
\* then on
Enrich(fields) ==
  /\ custom' = enrich(custom, fields)
  /\ UNCHANGED <<logVars, loggerConfig, logCalls, lastCall, emitterVars, now, ctxVars>>

\* the caller calls flush() of the logger (logging.ts:161-163)
Flush ==
  /\ SetLogWorld(LogBuffer_flush(LogWorld))
  /\ UNCHANGED <<transportAsync, loggerVars, emitterVars, now, ctxVars>>

IdleTimer ==
  /\ timers > 0
  /\ SetLogWorld(idleTimerFires(LogWorld))
  /\ UNCHANGED <<transportAsync, loggerVars, emitterVars, now, ctxVars>>

Probe ==
  /\ immediate
  /\ SetLogWorld(probe(LogWorld))
  /\ UNCHANGED <<transportAsync, loggerVars, emitterVars, now, ctxVars>>

\* the promise returned by sendEntries settles
SendSettles(i, outcome) ==
  /\ chain[i].st = "inflight"
  /\ chain' = [chain EXCEPT ![i].st = outcome]
  /\ UNCHANGED <<entries, size, flusher, asyncTransport, timeout, timers, immediate,
                 sent, collected, transportAsync, loggerVars, emitterVars, now, ctxVars>>

\* logging.ts:127-129  the then-callback of #startFlush runs once the promise
\* it was chained on has resolved; it never runs when that promise rejected
ChainedSend(i) ==
  /\ i > 1
  /\ chain[i].st = "chained"
  /\ chain[i - 1].st = "resolved"
  /\ chain' = [chain EXCEPT ![i].st = "inflight"]
  /\ sent' = Append(sent, chain[i].batch)
  /\ UNCHANGED <<entries, size, flusher, asyncTransport, timeout, timers, immediate,
                 collected, transportAsync, loggerVars, emitterVars, now, ctxVars>>

\* the caller calls emit
Emit(topic, len) ==
  LET timeLeft == deadline - now
  IN  /\ SetEmitWorld(EventEmitter_emit(EmitWorld, topic, len, timeLeft))
      /\ emitCalls' = emitCalls + 1
      /\ lastEmit' = [pending |-> buffered, timeLeft |-> timeLeft, ids |-> ids,
                      outcome |-> IF overflow(buffered, publishRate, timeLeft)
                                  THEN "overflow" ELSE "accepted"]
          /\ UNCHANGED <<logVars, loggerVars, emitterConfig, now, ctxVars>>

\* the caller calls eventBarrier (context.ts:137): emitter.flush()
EventBarrier ==
  /\ SetEmitWorld(EventEmitter_flush(EmitWorld))
  /\ UNCHANGED <<logVars, loggerVars, emitterConfig, emitCalls, lastEmit, now,
                 ctxVars>>

\* a send that resolves without the count being decremented
EventSendResolvesUncounted(r, t) ==
  /\ rounds[r].st[t] = "inflight"
  /\ rounds' = [rounds EXCEPT ![r].st[t] = "ok"]
  /\ UNCHANGED <<logVars, loggerVars, emitted, esize, ebytes, buffered, eflusher,
                 emitterConfig, esent, accepted, emitCalls, lastEmit, now, ctxVars>>

\* emitter.ts:77,81  sendEvents of round r, topic t, resolves
EventSendResolves(r, t) ==
  /\ rounds[r].st[t] = "inflight"
  /\ rounds' = [rounds EXCEPT ![r].st[t] = "ok"]
  /\ buffered' = buffered - Len(rounds[r].batch[t])
  /\ UNCHANGED <<logVars, loggerVars, emitted, esize, ebytes, eflusher, emitterConfig,
                 esent, accepted, emitCalls, lastEmit, now, ctxVars>>

\* emitter.ts:77-81  sendEvents of round r, topic t, rejects: the failure is
\* logged as fatal with the batch as fields, then the count is decremented
EventSendRejects(r, t, len) ==
  /\ rounds[r].st[t] = "inflight"
  /\ IF catchesSendError
     THEN /\ rounds' = [rounds EXCEPT ![r].st[t] = "failed"]
          /\ buffered' = buffered - Len(rounds[r].batch[t])
          /\ SetLogWorld(Logger_call(LogWorld, "fatal", level, len))
          /\ logCalls' = logCalls + 1
          /\ lastCall' = [method |-> "fatal", len |-> len, fields |-> rounds[r].batch[t],
                          entry |-> Logger_entry("fatal", level,
                                                 <<[events |-> rounds[r].batch[t]]>>,
                                                 reserved, <<>>)]
     ELSE /\ rounds' = [rounds EXCEPT ![r].st[t] = "threw"]
          /\ UNCHANGED <<buffered, entries, size, flusher, asyncTransport, timeout, timers,
                         immediate, chain, sent, collected, logCalls, lastCall>>
  /\ UNCHANGED <<transportAsync, loggerConfig, custom, emitted, esize, ebytes, eflusher,
                 emitterConfig, esent, accepted, emitCalls, lastEmit, now, ctxVars>>

\* a then-callback that runs without waiting for the promise it was chained on
ChainedRoundEager(r) ==
  /\ r > 1
  /\ ~rounds[r].run
  /\ SetEmitWorld(flushEvents(EmitWorld, r))
  /\ UNCHANGED <<logVars, loggerVars, emitterConfig, emitCalls, lastEmit, now,
                 ctxVars>>

\* emitter.ts:67  the then-callback of #startFlush runs #flushEvents once the
\* promise it was chained on has resolved
ChainedRound(r) ==
  /\ r > 1
  /\ ~rounds[r].run
  /\ RoundOutcome(r - 1) = "resolved"
  /\ SetEmitWorld(flushEvents(EmitWorld, r))
  /\ UNCHANGED <<logVars, loggerVars, emitterConfig, emitCalls, lastEmit, now,
                 ctxVars>>

\* the instants the clock is looked at by an emitter: construction, just
\* before the deadline, the deadline
EmitterInstants == {0, deadline - 1, deadline}

\* time passes to the next of the instants
Tick(instants) ==
  /\ \E t \in instants : t > now
  /\ now' = CHOOSE t \in instants : t > now /\ \A u \in instants : u > now => t <= u
  /\ UNCHANGED <<logVars, loggerVars, emitterVars, ctxVars>>

\* --------------------------------------------------------- createContext
\* context.ts:6-12  the ClientInfo values a context is made with
ClientInfos ==
  {[operationId |-> "op1", clientId |-> "c1", clientIp |-> "10.0.0.1", clientPort |-> 1,
    userAgent |-> "ua1"],
   [operationId |-> "op2", clientId |-> "c2", clientIp |-> "10.0.0.2", clientPort |-> 2,
    userAgent |-> "ua2"]}

\* context.ts:98-106  the fields createContext passes to enrichReserved
identityFields(clientInfo) ==
  [operationId |-> clientInfo.operationId,
   client |-> [id |-> clientInfo.clientId, ip |-> clientInfo.clientIp,
               port |-> clientInfo.clientPort, userAgent |-> clientInfo.userAgent]]

\* context.ts:93-107,118  the reserved enrichment of the logger the context
\* uses and returns: `logger` is what makeLogger returned; the logger
\* enrichReserved derives from it is not assigned to anything
contextLoggerReserved(clientInfo) ==
  LET logger == makeLoggerReserved
      derived == enrichReserved(logger, identityFields(clientInfo))
  IN  logger

\* context.ts:151  the fallback-abort timer is set to timeout + 15000
FlushGraceMs == 15000

\* context.ts:86-89  the effective timeout in ms; an optional number is
\* <<>> (undefined) or <<n>>, and a cap of 0 counts as no cap
effectiveTimeout(metaTimeout, default, cap) ==
  LET wanted == IF metaTimeout # <<>> THEN metaTimeout[1] ELSE default
      capped == IF cap # <<>> /\ cap[1] # 0
                THEN (IF wanted < cap[1] THEN wanted ELSE cap[1])
                ELSE wanted
  IN  capped * 1000

\* logging.ts:112-114,122  the promise LogBuffer.flush returns when called
\* on w (0: it resolves without waiting)
flushReturns(w) ==
  IF Len(w.entries) = 0 THEN 0
  ELSE LET w1 == LogBuffer_flush(w)
       IN  IF w1.flusher = 0 THEN 0 ELSE w1.chain[w1.flusher].ret

\* context.ts:140-147  the timeout timer fires
TimeoutFires(len) ==
  /\ timeoutHandle = "armed"
  /\ now >= timeoutMs
  /\ timeoutHandle' = "fired"
  /\ SetLogWorld(LogBuffer_flush(Logger_call(LogWorld, "error", level, len)))
  /\ logCalls' = logCalls + 1
  /\ lastCall' = [method |-> "error", len |-> len, fields |-> <<>>,
                  entry |-> Logger_entry("error", level, <<>>, reserved, <<>>)]
  /\ innerAborted' = TRUE
  /\ SetEmitWorld(EventEmitter_flush(EmitWorld))
  /\ UNCHANGED <<transportAsync, loggerConfig, custom, emitterConfig, emitCalls,
                 lastEmit, now, ctxConfig, outerAborted, flushHandle, cpc, cAwait, cRound,
                 cMark>>

\* context.ts:148-151  the delay of the fallback-abort timer has passed
flushTimerDueAtTimeout == now >= timeoutMs

flushTimerDue == now >= timeoutMs + FlushGraceMs

\* context.ts:148-151  the fallback-abort timer fires; it was set after the
\* timeout timer and for later, so it fires after it
FlushTimeoutFires(len) ==
  /\ flushHandle = "armed"
  /\ timeoutHandle # "armed"
  /\ flushTimerDue
  /\ flushHandle' = "fired"
  /\ SetLogWorld(Logger_call(LogWorld, "error", level, len))
  /\ logCalls' = logCalls + 1
  /\ lastCall' = [method |-> "error", len |-> len, fields |-> <<>>,
                  entry |-> Logger_entry("error", level, <<>>, reserved, <<>>)]
  /\ outerAborted' = TRUE
  /\ UNCHANGED <<transportAsync, loggerConfig, custom, emitterVars, now, ctxConfig,
                 innerAborted, timeoutHandle, cpc, cAwait, cRound, cMark>>

\* context.ts:156-158  flush() of the context is called: the timeout timer
\* is cleared and the emitter's flush is awaited
ContextFlush ==
  /\ cpc = "idle"
  /\ timeoutHandle' = IF timeoutHandle = "armed" THEN "cleared" ELSE timeoutHandle
  /\ SetEmitWorld(EventEmitter_flush(EmitWorld))
  /\ cAwait' = Len(rounds) + 1
  /\ cRound' = Len(rounds) + 1
  /\ cMark' = collected
  /\ cpc' = "emitter"
  /\ UNCHANGED <<logVars, loggerVars, emitterConfig, emitCalls, lastEmit, now,
                 ctxConfig, innerAborted, outerAborted, flushHandle>>

\* context.ts:158  `await emitter.flush()`: how the awaited promise stands
awaitEmitterFlushSkipped(k) == "resolved"

awaitEmitterFlush(k) == RoundOutcome(k)

\* context.ts:158-159  the emitter's flush has settled: the logger's flush
\* is awaited
ContextFlushLogger ==
  /\ cpc = "emitter"
  /\ awaitEmitterFlush(cAwait) # "pending"
  /\ IF awaitEmitterFlush(cAwait) = "resolved"
     THEN /\ SetLogWorld(LogBuffer_flush(LogWorld))
          /\ cAwait' = flushReturns(LogWorld)
          /\ cpc' = "logger"
     ELSE /\ cpc' = "rejected"
          /\ UNCHANGED <<entries, size, flusher, asyncTransport, timeout, timers, immediate,
                         chain, sent, collected, cAwait>>
  /\ UNCHANGED <<transportAsync, loggerVars, emitterVars, now, ctxConfig, innerAborted,
                 outerAborted, timeoutHandle, flushHandle, cRound, cMark>>

\* context.ts:159-160  the logger's flush has settled: the fallback-abort
\* timer is cleared unless the flush rejected
ContextFlushDone ==
  /\ cpc = "logger"
  /\ Outcome(cAwait)[1] # "pending"
  /\ IF Outcome(cAwait)[1] = "resolved"
     THEN /\ flushHandle' = IF flushHandle = "armed" THEN "cleared" ELSE flushHandle
          /\ cpc' = "done"
     ELSE /\ cpc' = "rejected"
          /\ UNCHANGED flushHandle
  /\ UNCHANGED <<logVars, loggerVars, emitterVars, now, ctxConfig, innerAborted,
                 outerAborted, timeoutHandle, cAwait, cRound, cMark>>

\* the instants the clock is looked at in a context: construction, the
\* timeout, the fallback abort
ContextInstants == {0, timeoutMs, timeoutMs + FlushGraceMs}

\* ------------------------------------------------------- specifications
InitLogBuffer ==
  /\ entries = <<>>
  /\ size = 0
  /\ flusher = 0
  /\ asyncTransport = "undefined"
  /\ timeout = FALSE
  /\ timers = 0
  /\ immediate = FALSE
  /\ chain = <<>>
  /\ sent = <<>>
  /\ collected = 0
  /\ logCalls = 0
  /\ lastCall = [method |-> "none", len |-> 0, fields |-> <<>>, entry |-> <<>>]
  /\ custom = <<>>

\* the publish rates (events per second) of the event transport
Rates == {1, 2}

\* the timeouts (ms) an emitter is made with
Timeouts == {1000}

\* emitter.ts:19-32  a new EventEmitter
InitEventEmitter ==
  /\ emitted = NoEvents
  /\ esize = 0
  /\ ebytes = 0
  /\ buffered = 0
  /\ eflusher = 0
  /\ rounds = <<>>
  /\ esent = <<>>
  /\ accepted = 0
  /\ emitCalls = 0
  /\ lastEmit = [pending |-> 0, timeLeft |-> 0, ids |-> ids, outcome |-> "none"]
  /\ now = 0

\* a log transport's publishRate, which is optional, and what createContext
\* makes of the transports it is given
NoRate == [kind |-> "undefined", n |-> 0]

Rate(n) == [kind |-> "number", n |-> n]

MAX_SAFE_INTEGER == [kind |-> "MAX_SAFE_INTEGER", n |-> 0]

NotBuilt == [kind |-> "not built", n |-> 0]

\* context.ts:86-163  the timers and the signals of a new context, made with
\* one log transport
InitSignals ==
  /\ innerAborted = FALSE
  /\ outerAborted = FALSE
  /\ timeoutHandle = "armed"
  /\ flushHandle = "armed"
  /\ cpc = "idle"
  /\ cAwait = 0
  /\ cRound = 0
  /\ cMark = 0

InitContext ==
  /\ loggers = <<NoRate>>
  /\ logPublishRate = NoRate
  /\ InitSignals

\* Number.prototype.toString of a natural number, as its decimal digits
RECURSIVE NumberToString(_)
NumberToString(n) == IF n < 10 THEN <<n>> ELSE Append(NumberToString(n \div 10), n % 10)

\* the order of Array.prototype.sort without a comparator: by the code
\* units of the elements' strings
StringLess(a, b) ==
  \/ \E i \in 1..Len(a) :
       /\ i <= Len(b)
       /\ a[i] < b[i]
       /\ \A j \in 1..(i - 1) : a[j] = b[j]
  \/ Len(a) < Len(b) /\ \A j \in 1..Len(a) : a[j] = b[j]

\* context.ts:54  `.sort()[0]`: sort puts undefined last and orders the
\* rest as strings
sortedFirst(rates) ==
  LET defined == {rates[i] : i \in {j \in 1..Len(rates) : rates[j].kind = "number"}}
  IN  IF defined = {} THEN NoRate
      ELSE CHOOSE r \in defined :
             \A q \in defined : ~StringLess(NumberToString(q.n), NumberToString(r.n))

\* context.ts:52-55  publishRate of a LogMulticaster over the transports
LogMulticaster_publishRate(rates) ==
  IF sortedFirst(rates).kind = "number" THEN sortedFirst(rates) ELSE MAX_SAFE_INTEGER

\* context.ts:92  logTransport: the only transport, or a LogMulticaster
logTransportPublishRate(rates) ==
  IF Len(rates) = 1 THEN rates[1] ELSE LogMulticaster_publishRate(rates)

\* context.ts:92  createContext builds logTransport
BuildLogTransport ==
  /\ logPublishRate = NotBuilt
  /\ logPublishRate' = logTransportPublishRate(loggers)
  /\ UNCHANGED <<logVars, loggerVars, emitterVars, now, timeoutMs, loggers, innerAborted,
                 outerAborted, timeoutHandle, flushHandle, cpc, cAwait, cRound, cMark>>

\* the publishRate values of the log transports
MemberRates == {NoRate, Rate(2), Rate(9), Rate(10)}

\* the lists of up to n elements of S
RECURSIVE SeqsUpTo(_, _)
SeqsUpTo(S, n) ==
  IF n = 0 THEN {<<>>}
  ELSE SeqsUpTo(S, n - 1) \cup {Append(q, x) : q \in SeqsUpTo(S, n - 1), x \in S}

\* createContext is given any list of log transports and builds logTransport
InitMulticast ==
  /\ InitLogBuffer
  /\ transportAsync = TRUE
  /\ minimumLogLevel = "none"
  /\ level = makeLoggerLevel(minimumLogLevel)
  /\ reserved = makeLoggerReserved
  /\ ids \in ClientInfos
  /\ InitEventEmitter
  /\ publishRate = 1
  /\ deadline = 1000
  /\ timeoutMs = 1000
  /\ loggers \in SeqsUpTo(MemberRates, MaxLoggers)
  /\ logPublishRate = NotBuilt
  /\ InitSignals

NextMulticast == BuildLogTransport

SpecMulticast == InitMulticast /\ [][NextMulticast]_vars

\* the ClientInfo of the contexts whose identity is not at stake
TheClientInfo == CHOOSE clientInfo \in ClientInfos : clientInfo.operationId = "op1"

\* context.ts:93-114  createContext makes the logger and the emitter for
\* clientInfo
CreateContext(clientInfo) ==
  /\ reserved = contextLoggerReserved(clientInfo)
  /\ ids = clientInfo

\* the emitter and the context are not used
IdleEventEmitter ==
  /\ ids = TheClientInfo
  /\ InitEventEmitter
  /\ publishRate = 1
  /\ deadline = 1000
  /\ InitContext
  /\ timeoutMs = 1000

\* the methods the caller uses where the threshold of the logger is not at
\* stake: one below and one at the flush severity
BufferMethods == {"info", "error"}

\* a LogBuffer behind a logger with no minimum level, over either kind of
\* transport
Init ==
  /\ InitLogBuffer
  /\ transportAsync \in BOOLEAN
  /\ minimumLogLevel = "none"
  /\ level = makeLoggerLevel(minimumLogLevel)
  /\ reserved = makeLoggerReserved
  /\ IdleEventEmitter

Next ==
  \/ /\ logCalls < MaxCollect
     /\ \E m \in BufferMethods, len \in Lens : Log(m, len)
  \/ Flush
  \/ IdleTimer
  \/ Probe
  \/ \E i \in 1..Len(chain) : SendSettles(i, "resolved")
  \/ \E i \in 1..Len(chain) : SendSettles(i, "rejected")
  \/ \E i \in 1..Len(chain) : ChainedSend(i)

Spec == Init /\ [][Next]_vars

\* the same LogBuffer when the caller only logs and every send succeeds
NextIdle ==
  \/ /\ logCalls < MaxIdleCollect
     /\ \E m \in BufferMethods, len \in Lens : Log(m, len)
  \/ IdleTimer
  \/ Probe
  \/ \E i \in 1..Len(chain) : SendSettles(i, "resolved")
  \/ \E i \in 1..Len(chain) : ChainedSend(i)

SpecIdle == Init /\ [][NextIdle]_vars

\* a logger of any configured minimum level; the caller uses all six methods
InitLogger ==
  /\ InitLogBuffer
  /\ transportAsync \in BOOLEAN
  /\ minimumLogLevel \in LogLevels \cup {"none"}
  /\ level = makeLoggerLevel(minimumLogLevel)
  /\ reserved = makeLoggerReserved
  /\ IdleEventEmitter

NextLogger ==
  \/ /\ logCalls < MaxLoggerCalls
     /\ \E m \in Methods : Log(m, 100)
  \/ IdleTimer
  \/ Probe
  \/ \E i \in 1..Len(chain) : SendSettles(i, "resolved")
  \/ \E i \in 1..Len(chain) : ChainedSend(i)

SpecLogger == InitLogger /\ [][NextLogger]_vars

\* an EventEmitter, the clock, and the logger it reports failures to, which
\* here only collects
InitEmitter ==
  /\ InitLogBuffer
  /\ transportAsync = TRUE
  /\ minimumLogLevel = "none"
  /\ level = makeLoggerLevel(minimumLogLevel)
  /\ reserved = makeLoggerReserved
  /\ ids = TheClientInfo
  /\ InitEventEmitter
  /\ publishRate \in Rates
  /\ \E ms \in Timeouts : deadline = now + ms /\ timeoutMs = ms
  /\ InitContext

NextEmitter ==
  \/ /\ emitCalls < MaxEmit
     /\ \E t \in Topics, len \in EventLens : Emit(t, len)
  \/ /\ Len(rounds) < MaxRounds
     /\ EventBarrier
  \/ \E r \in 1..Len(rounds), t \in Topics : EventSendResolves(r, t)
  \/ \E r \in 1..Len(rounds), t \in Topics : EventSendRejects(r, t, 100)
  \/ \E r \in 1..Len(rounds) : ChainedRound(r)
  \/ Tick(EmitterInstants)

SpecEmitter == InitEmitter /\ [][NextEmitter]_vars

\* serialized lengths of the data of the events of a burst: 64 of them stay
\* within the size threshold
BurstLens == {0, 1000}

\* an EventEmitter whose caller emits a burst of events to one topic and
\* never flushes; the transport settles the sends (a burst this long
\* starts one flush round, so no round is ever chained)
NextBurst ==
  \/ /\ emitCalls < MaxBurst
     /\ \E len \in BurstLens : Emit("a", len)
  \/ \E r \in 1..Len(rounds), t \in Topics : EventSendResolves(r, t)
  \/ Tick(EmitterInstants)

SpecBurst == InitEmitter /\ [][NextBurst]_vars

\* a context made by createContext: the handler logs and emits, the host
\* calls flush(), the timers fire, the transports settle their sends
InitCreateContext ==
  /\ InitLogBuffer
  /\ transportAsync \in BOOLEAN
  /\ minimumLogLevel = "none"
  /\ level = makeLoggerLevel(minimumLogLevel)
  /\ CreateContext(TheClientInfo)
  /\ InitEventEmitter
  /\ publishRate = 2
  /\ \E metaTimeout \in {<<>>, <<2>>} :
       timeoutMs = effectiveTimeout(metaTimeout, 1, <<1>>)
  /\ deadline = now + timeoutMs
  /\ InitContext

NextContext ==
  \/ /\ logCalls < MaxContextLogs
     /\ \E m \in BufferMethods : Log(m, 100)
  \/ /\ emitCalls < MaxContextEmits
     /\ Emit("a", 0)
  \/ \E r \in 1..Len(rounds), t \in Topics : EventSendResolves(r, t)
  \/ \E r \in 1..Len(rounds), t \in Topics : EventSendRejects(r, t, 100)
  \/ \E r \in 1..Len(rounds) : ChainedRound(r)
  \/ IdleTimer
  \/ Probe
  \/ \E i \in 1..Len(chain) : SendSettles(i, "resolved")
  \/ \E i \in 1..Len(chain) : SendSettles(i, "rejected")
  \/ \E i \in 1..Len(chain) : ChainedSend(i)
  \/ Tick(ContextInstants)
  \/ TimeoutFires(100)
  \/ FlushTimeoutFires(100)
  \/ ContextFlush
  \/ ContextFlushLogger
  \/ ContextFlushDone

SpecContext == InitCreateContext /\ [][NextContext]_vars

\* the objects over the given keys with values from the given set
Objects(keys, values) == UNION {[ks -> values] : ks \in SUBSET keys}

\* the fields given to enrichReserved, to enrich and to a leveled method
ReservedFields == Objects({"a"}, {1})
CustomFields == Objects({"a", "b"}, {2, 4})
CallerFields == Objects({"b", "c"}, {3})

\* a logger with or without reserved enrichment; the caller derives
\* loggers with enrich and logs with or without fields
InitEnrich ==
  /\ InitLogBuffer
  /\ transportAsync \in BOOLEAN
  /\ minimumLogLevel = "none"
  /\ level = makeLoggerLevel(minimumLogLevel)
  /\ reserved \in {makeLoggerReserved} \cup
                    {enrichReserved(makeLoggerReserved, fields) : fields \in ReservedFields}
  /\ IdleEventEmitter

NextEnrich ==
  \/ \E fields \in CustomFields : Enrich(fields)
  \/ /\ logCalls < MaxLoggerCalls
     /\ \E m \in BufferMethods, fields \in {<<>>} \cup {<<f>> : f \in CallerFields} :
          LogWith(m, 100, fields)
  \/ Probe
  \/ \E i \in 1..Len(chain) : SendSettles(i, "resolved")
  \/ \E i \in 1..Len(chain) : ChainedSend(i)

SpecEnrich == InitEnrich /\ [][NextEnrich]_vars

\* a context made for any of the clients: the handler logs through
\* context.log with every method and emits, the timers log, the emitter logs
\* a failed send
InitIdentity ==
  /\ InitLogBuffer
  /\ transportAsync = TRUE
  /\ minimumLogLevel = "none"
  /\ level = makeLoggerLevel(minimumLogLevel)
  /\ \E clientInfo \in ClientInfos : CreateContext(clientInfo)
  /\ InitEventEmitter
  /\ publishRate = 2
  /\ timeoutMs = effectiveTimeout(<<>>, 1, <<>>)
  /\ deadline = now + timeoutMs
  /\ InitContext

NextIdentity ==
  \/ /\ logCalls < MaxContextLogs
     /\ \E m \in Methods : Log(m, 100)
  \/ /\ emitCalls < MaxContextEmits
     /\ Emit("a", 0)
  \/ \E r \in 1..Len(rounds), t \in Topics : EventSendResolves(r, t)
  \/ \E r \in 1..Len(rounds), t \in Topics : EventSendRejects(r, t, 100)
  \/ IdleTimer
  \/ Probe
  \/ \E i \in 1..Len(chain) : SendSettles(i, "resolved")
  \/ \E i \in 1..Len(chain) : ChainedSend(i)
  \/ Tick(ContextInstants)
  \/ TimeoutFires(100)
  \/ FlushTimeoutFires(100)

SpecIdentity == InitIdentity /\ [][NextIdentity]_vars

\* ---------------------------------------------------------------- claims
Range(seq) == {seq[i] : i \in 1..Len(seq)}

\* the entries the transport has been handed, over all sendEntries calls
SentIds == UNION {Range(sent[b]) : b \in 1..Len(sent)}

\* C1: with an asynchronous transport, a send is started only when every
\* earlier send has resolved (so at most one is in flight), and the batches
\* reach the transport in the order their entries were collected.
C1_SendsSerializedInOrder ==
  transportAsync =>
    /\ \A i \in 1..Len(chain) :
         chain[i].st # "chained" => \A j \in 1..(i - 1) : chain[j].st = "resolved"
    /\ Cardinality({i \in 1..Len(chain) : chain[i].st = "inflight"}) <= 1
    /\ \A a, b \in 1..Len(sent) : \A x \in 1..Len(sent[a]), y \in 1..Len(sent[b]) :
         (a < b \/ (a = b /\ x < y)) => sent[a][x] < sent[b][y]

\* two batches were detached while an earlier send had not resolved, and the
\* first of them has been sent after it
C1_Witness ==
  /\ transportAsync
  /\ Len(chain) >= 3
  /\ chain[1].st = "resolved"
  /\ chain[2].st = "inflight" /\ chain[2].by = "flush"
  /\ chain[3].st = "chained"
  /\ Len(sent) = 2

\* the entries whose send has completed: the promise sendEntries returned
\* has resolved, or sendEntries returned nothing
CompletedIds ==
  IF transportAsync
  THEN UNION {Range(chain[i].batch) : i \in {j \in 1..Len(chain) : chain[j].st = "resolved"}}
  ELSE SentIds

\* C2: when the promise returned by the context's flush() resolves, every
\* log entry collected before flush() was called has been passed to
\* sendEntries and that send has completed, also when its batch was detached
\* earlier and was in flight or chained when flush() was called.
C2_FlushCompletesEarlierLogs ==
  cpc = "done" => \A id \in 1..cMark : id \in CompletedIds

\* nothing is left that would make the buffer call sendEntries: no timer, no
\* probe, no send in flight, no chained send whose turn has come
Quiescent ==
  /\ ~immediate
  /\ timers = 0
  /\ \A i \in 1..Len(chain) : chain[i].st # "inflight"
  /\ \A i \in 2..Len(chain) : ~(chain[i].st = "chained" /\ chain[i - 1].st = "resolved")

\* C3: every entry accepted by collect is passed to sendEntries at least
\* once, when the timers have fired and the sends have settled, also after
\* the send of an earlier batch has rejected.
C3_AtLeastOnce == Quiescent => \A id \in 1..collected : id \in SentIds

\* C7: when sendEntries rejects for a batch that a flush() call started or
\* chained, the promise returned by that call rejects with that error, and
\* the entries of the batch were handed to sendEntries exactly once.
C7_RejectionPropagatesNoRetry ==
  \A i \in 1..Len(chain) :
    chain[i].st = "rejected" =>
      /\ chain[i].by = "flush" => Outcome(chain[i].ret) = <<"rejected", i>>
      /\ \A id \in Range(chain[i].batch) :
           Cardinality({b \in 1..Len(sent) : id \in Range(sent[b])}) = 1

\* a batch chained by flush() behind another was sent and rejected, and
\* entries were collected and flushed after it
C7_Witness ==
  \E i \in 2..Len(chain) :
    /\ chain[i].st = "rejected"
    /\ chain[i].by = "flush"
    /\ Len(chain) > i
    /\ Len(sent) = i

\* C4: with publish rate R events/second and D ms left, emit accepts while
\* the pending count is at most R*D/1000 and raises overflow once it exceeds
\* R*D/1000.
C4_OverflowThreshold ==
  lastEmit.outcome # "none" =>
    (lastEmit.outcome = "overflow" <=>
       lastEmit.pending * 1000 > publishRate * lastEmit.timeLeft)

\* C5: an emit that fails with overflow leaves the emitter unchanged: no
\* event appended, pending count and size as before, no flush started.
C5_OverflowLeavesEmitter ==
  [][(emitCalls' = emitCalls + 1 /\ lastEmit'.outcome = "overflow") =>
       UNCHANGED <<emitted, esize, buffered, eflusher, rounds, esent, accepted>>]_vars

\* an emit was refused with overflow while events were buffered and pending
C5_Witness ==
  /\ lastEmit.outcome = "overflow"
  /\ lastEmit.timeLeft > 0
  /\ buffered > 0
  /\ \E t \in Topics : emitted[t] # <<>>

\* C6: when sendEvents rejects for one topic of a round, exactly one fatal
\* log entry carrying the failed batch is collected, the sends of the other
\* topics of the round are left to complete, the promise of the round (the
\* one flush() returned) does not reject and resolves once all its sends
\* have settled, so the rounds chained behind it run.
C6_FailureIsolated ==
  /\ [](\A r \in 1..Len(rounds) :
          /\ RoundOutcome(r) # "rejected"
          /\ (rounds[r].run /\ \A t \in Topics : rounds[r].st[t] # "inflight")
               => RoundOutcome(r) = "resolved")
  /\ [][\A r \in 1..Len(rounds), t \in Topics :
          (rounds[r].st[t] = "inflight" /\ rounds'[r].st[t] \notin {"inflight", "ok"}) =>
            /\ rounds'[r].st[t] = "failed"
            /\ collected' = collected + 1
            /\ logCalls' = logCalls + 1
            /\ lastCall'.method = "fatal"
            /\ lastCall'.fields = rounds[r].batch[t]
            /\ \A u \in Topics \ {t} : rounds'[r].st[u] = rounds[r].st[u]]_vars

\* in the first round the send of topic a failed, the send of topic b then
\* completed, and the round chained behind it has run
C6_Witness ==
  /\ Len(rounds) >= 2
  /\ rounds[1].st["a"] = "failed"
  /\ rounds[1].st["b"] = "ok"
  /\ rounds[2].run
  /\ collected = 1

\* the levels from least to most severe, and the level a method logs at
SeverityOrder == <<"trace", "debug", "info", "warning", "error", "fatal">>

LevelOfMethod(m) == IF m = "warn" THEN "warning" ELSE m

AtLeastAsSevere(l, t) == IndexOf(SeverityOrder, l) >= IndexOf(SeverityOrder, t)

\* C8: a call of a leveled method results in exactly one collect iff its
\* level is at least as severe as the configured minimum (trace when none is
\* configured), fatal always; a filtered-out call leaves the buffer, its
\* size and its timers unchanged.
C8_SeverityFilter ==
  [][logCalls' = logCalls + 1 =>
       LET l == LevelOfMethod(lastCall'.method)
           t == IF minimumLogLevel = "none" THEN "trace" ELSE minimumLogLevel
       IN  IF l = "fatal" \/ AtLeastAsSevere(l, t)
           THEN collected' = collected + 1
           ELSE UNCHANGED logVars]_vars

\* under minimum level warning, one call was collected and a later info
\* call was filtered out
C8_Witness ==
  /\ minimumLogLevel = "warning"
  /\ lastCall.method = "info"
  /\ logCalls = 2
  /\ collected = 1

\* the thresholds as the claim states them: error or worse, more than 8
\* buffered entries, more than 64,000 bytes
C9_ThresholdCrossed ==
  \/ lastCall'.method \in {"error", "fatal"}
  \/ Len(entries) + 1 > 8
  \/ size + lastCall'.len > 64000

\* the steps of a buffer whose caller only logs: the probe ran; an idle timer
\* fired (no collect, and a timer less); the then-callback of a chained batch
\* ran
C9_ProbeRan == immediate /\ ~immediate'

C9_TimerFired == collected' = collected /\ timers' < timers

C9_ChainedSendRan ==
  \E i \in 1..Len(chain) : chain[i].st = "chained" /\ chain'[i].st = "inflight"

\* C9 (as amended): with an asynchronous transport and no explicit flush(),
\* sendEntries is called only by the deferred first-entry probe, by the idle
\* timer, by a collect that crosses a threshold, or for a batch such a flush
\* has chained.
C9_NoSendUnderThresholds ==
  [][(transportAsync /\ Len(sent') > Len(sent)) =>
       \/ C9_ProbeRan
       \/ C9_TimerFired
       \/ C9_ChainedSendRan
       \/ collected' = collected + 1 /\ C9_ThresholdCrossed]_vars

\* C9 (as stated): no sendEntries call until the idle timer fires or a
\* threshold is crossed.
C9_Original ==
  [][(transportAsync /\ Len(sent') > Len(sent)) =>
       \/ C9_TimerFired
       \/ C9_ChainedSendRan
       \/ collected' = collected + 1 /\ C9_ThresholdCrossed]_vars

\* eight entries were buffered without a send and the ninth, below error
\* severity and small, made collect flush all nine
C9_Witness ==
  /\ transportAsync
  /\ collected = 9
  /\ lastCall.method = "info"
  /\ lastCall.len = 100
  /\ Len(sent) = 1
  /\ Len(sent[1]) = 9
  /\ size = 0

\* C10: the mode is chosen once: a probe whose sendEntries returns nothing
\* puts the buffer in synchronous mode, which it never leaves; in that mode
\* every collect hands exactly the entry it collected to sendEntries and
\* leaves the buffer empty; over a transport that returns a promise the
\* buffer never enters synchronous mode.
C10_ModePermanent ==
  [][/\ asyncTransport = "false" => asyncTransport' = "false"
     /\ (asyncTransport = "false" /\ collected' = collected + 1) =>
          /\ sent' = Append(sent, <<collected'>>)
          /\ entries' = <<>>
          /\ size' = 0
     /\ (immediate /\ ~immediate' /\ ~transportAsync) => asyncTransport' = "false"
     /\ transportAsync => asyncTransport' # "false"]_vars

\* in synchronous mode two collects have each been sent on their own
C10_Witness ==
  /\ asyncTransport = "false"
  /\ entries = <<>>
  /\ Len(sent) >= 3
  /\ Len(sent[Len(sent)]) = 1
  /\ Len(sent[Len(sent) - 1]) = 1

\* C11: events emitted to one topic, none of them flushed yet and their size
\* within the size threshold: the emit of the 65th event, and no earlier one,
\* starts a flush whose sendEvents call carries the 65 events in emission
\* order, and leaves no event buffered in the emitter.
C11_FlushAtSixtyFive ==
  [][(emitCalls' = emitCalls + 1 /\ lastEmit'.outcome = "accepted" /\ rounds = <<>>
        /\ esize <= 64000) =>
       IF Len(emitted["a"]) + 1 = 65
       THEN /\ esent' = <<[topic |-> "a", events |-> [i \in 1..65 |-> i]]>>
            /\ Len(rounds') = 1
            /\ rounds'[1].run
            /\ emitted' = NoEvents
       ELSE /\ esent' = esent
            /\ rounds' = rounds
            /\ emitted'["a"] = Append(emitted["a"], accepted')]_vars

\* the 65th event has been emitted and the 65 events were sent as one batch
C11_Witness ==
  /\ accepted = 65
  /\ Len(esent) = 1
  /\ Len(esent[1].events) = 65
  /\ emitted = NoEvents

\* C12: flush() of the LogBuffer called with no pending entries is a no-op
\* that returns immediately: no sendEntries call, the idle timer and the
\* chain untouched, entries and size unchanged; and a flush() right after a
\* flush() changes nothing more.
C12_EmptyFlushNoOp ==
  /\ Len(entries) = 0 =>
       /\ LogBuffer_flush(LogWorld) = LogWorld
       /\ flushReturns(LogWorld) = 0
  /\ LogBuffer_flush(LogBuffer_flush(LogWorld)) = LogBuffer_flush(LogWorld)

\* nothing is buffered while the idle timer is armed and a send is in flight
C12_Witness ==
  /\ Len(entries) = 0
  /\ timeout
  /\ timers > 0
  /\ flusher # 0
  /\ chain[flusher].st = "inflight"

\* every sendEvents call of the rounds up to k has been made and has settled
RoundsSettled(k) ==
  \A r \in 1..k : rounds[r].run /\ \A t \in Topics : rounds[r].st[t] # "inflight"

\* C13: in flush() of the context the timeout timer is cancelled first, the
\* logger's flush is started only when the emitter's flush has resolved, and
\* the fallback-abort timer is cancelled only after the logger's flush; so
\* every sendEvents call for events emitted before flush() has settled when
\* the final log batch is detached and passed to sendEntries.
C13_FlushOrder ==
  /\ [](/\ cpc # "idle" => timeoutHandle # "armed"
        /\ cpc \in {"logger", "done"} => RoundOutcome(cRound) = "resolved" /\ RoundsSettled(cRound)
        /\ flushHandle = "cleared" => cpc = "done")
  /\ [][(cpc = "emitter" /\ cpc' = "logger") =>
          (RoundsSettled(cRound) /\ entries' = <<>> /\ flushHandle' # "cleared")]_vars

\* flush() was called while an event was buffered and a log entry pending;
\* the event's send has settled and the final log batch has been sent
C13_Witness ==
  /\ cpc = "done"
  /\ cRound = 1
  /\ rounds[1].st["a"] = "ok"
  /\ Len(chain) = 1
  /\ chain[1].by = "flush"
  /\ chain[1].st = "resolved"
  /\ flushHandle = "cleared"
  /\ timeoutHandle = "cleared"

C15_TimersRetired ==
  [][(cpc = "done" \/ cpc = "rejected") =>
       (/\ timeoutHandle' = timeoutHandle
        /\ flushHandle' = flushHandle
        /\ innerAborted' = innerAborted
        /\ outerAborted' = outerAborted)]_vars

\* the events in the batches of the rounds up to k
RoundIds(k) == UNION {Range(rounds[r].batch[t]) : r \in 1..k, t \in Topics}

\* C16: eventBarrier() detaches every buffered event into a round of its own
\* behind the earlier rounds, so the rounds up to it hold every event
\* accepted before the call; and the promise of a round, the one
\* eventBarrier() returned, is resolved only when every sendEvents call of
\* that round and of the earlier ones has been made and has settled.
C16_EventBarrier ==
  /\ [](\A k \in 1..Len(rounds) :
          RoundOutcome(k) = "resolved" =>
            (RoundsSettled(k) /\
             \A id \in RoundIds(k) :
               \E c \in 1..Len(esent) : id \in Range(esent[c].events)))
  /\ [][Len(rounds') = Len(rounds) + 1 =>
          (/\ \A id \in 1..accepted :
                \E r \in 1..Len(rounds'), t \in Topics : id \in Range(rounds'[r].batch[t])
           /\ emitted' = NoEvents
           /\ eflusher' = Len(rounds'))]_vars

\* eventBarrier() was called while an earlier round was in flight; both
\* rounds have settled and the barrier's promise has resolved
C16_Witness ==
  /\ Len(rounds) = 2
  /\ rounds[1].batch["a"] # <<>>
  /\ rounds[2].batch["b"] # <<>>
  /\ RoundOutcome(2) = "resolved"
  /\ Len(esent) = 2

\* the number of positions of the sequences of batches at which id occurs
Occurrences(batches, id) ==
  Cardinality({<<b, x>> \in (1..Len(batches)) \X (1..(collected + accepted)) :
                 x <= Len(batches[b]) /\ batches[b][x] = id})

\* C17: an entry accepted by collect is in at most one batch passed to
\* sendEntries (and in no batch still waiting in the chain besides), and an
\* event accepted by emit is in at most one sendEvents call.
C17_AtMostOnce ==
  /\ \A id \in 1..collected :
       /\ Occurrences(sent, id) <= 1
       /\ Occurrences([i \in 1..Len(chain) |-> chain[i].batch], id) <= 1
       /\ id \in Range(entries) => Occurrences(sent, id) = 0
  /\ \A id \in 1..accepted :
       /\ Occurrences([c \in 1..Len(esent) |-> esent[c].events], id) <= 1
       /\ (\E t \in Topics : id \in Range(emitted[t])) =>
            Occurrences([c \in 1..Len(esent) |-> esent[c].events], id) = 0

\* the probe has sent the first entry, the timeout timer has logged and
\* flushed, flush() of the context has run, and an event has been sent
C17_Witness ==
  /\ timeoutHandle = "fired"
  /\ ~immediate
  /\ cpc \in {"logger", "done"}
  /\ Len(sent) >= 2
  /\ Len(esent) = 1
  /\ collected >= 3

\* the record carries the operation id and the client fields of the context
HasIdentity(record) ==
  /\ "operationId" \in DOMAIN record
  /\ record["operationId"] = ids.operationId
  /\ "client" \in DOMAIN record
  /\ record["client"] = [id |-> ids.clientId, ip |-> ids.clientIp, port |-> ids.clientPort,
                         userAgent |-> ids.userAgent]

\* C18: every event emit accepts carries the ClientInfo the context was
\* made with, and every log entry written through the context's logger
\* carries operationId and the client fields at the top level of its record.
C18_IdentityAttached ==
  [][/\ accepted' = accepted + 1 => lastEmit'.ids = ids
     /\ collected' = collected + 1 => HasIdentity(lastCall'.entry[1].json)]_vars

\* C19: the entry a leveled method hands to the buffer carries the level
\* label of that method (trace, debug, info, warning, error, fatal), in
\* LogEntry.level and in the serialized record, with the numeric severity
\* 5, 4, 3, 2, 1, 0 of that level.
C19_LevelLabels ==
  [][collected' = collected + 1 =>
       LET e == lastCall'.entry[1]
           l == LevelOfMethod(lastCall'.method)
       IN  /\ e.level = l
           /\ e.json["level"] = l
           /\ e.numeric = 5 - IndexOf(SeverityOrder, l)]_vars

\* the keys of an optional object
Keys(o) == IF o = <<>> THEN {} ELSE DOMAIN o[1]

\* C20: the custom fields of a derived logger are those of its parent
\* overridden key-wise by the fields given to enrich; the fields object of
\* a record is the custom fields overridden key-wise by the caller's fields;
\* the reserved fields are at the top level with their own values; and
\* fields is absent exactly when the logger has no custom enrichment and
\* the call was given no fields.
C20_MergePrecedence ==
  [][/\ custom' # custom =>
          \E f \in CustomFields :
            /\ Keys(custom') = Keys(custom) \cup DOMAIN f
            /\ \A k \in Keys(custom') :
                 custom'[1][k] = IF k \in DOMAIN f THEN f[k] ELSE custom[1][k]
     /\ collected' = collected + 1 =>
          LET record == lastCall'.entry[1].json
              F == lastCall'.fields
          IN  /\ DOMAIN record = {"level"} \cup Keys(reserved) \cup
                                   (IF custom # <<>> \/ F # <<>> THEN {"fields"} ELSE {})
              /\ \A k \in Keys(reserved) : record[k] = reserved[1][k]
              /\ "fields" \in DOMAIN record =>
                   /\ DOMAIN record["fields"] = Keys(custom) \cup Keys(F)
                   /\ \A k \in DOMAIN record["fields"] :
                        record["fields"][k] = IF k \in Keys(F) THEN F[1][k]
                                              ELSE custom[1][k]]_vars

\* reserved {a: 1}, custom {a: 2, b: 2} and caller fields {b: 3, c: 3} gave
\* a record with a = 1 and fields {a: 2, b: 3, c: 3}
C20_Witness ==
  /\ reserved = <<[a |-> 1]>>
  /\ custom = <<[a |-> 2, b |-> 2]>>
  /\ lastCall.fields = <<[b |-> 3, c |-> 3]>>
  /\ lastCall.entry # <<>>
  /\ lastCall.entry[1].json["a"] = 1
  /\ lastCall.entry[1].json["fields"] = [a |-> 2, b |-> 3, c |-> 3]

\* the rates that the members of the fan-out transport define
DefinedRates == {loggers[i].n : i \in {j \in 1..Len(loggers) : loggers[j].kind = "number"}}

\* C21: the publishRate of the fan-out transport built from several log
\* transports is the numeric minimum of the rates its members define, and
\* the largest safe integer when no member defines one.
C21_MulticasterMinimum ==
  (Len(loggers) # 1 /\ logPublishRate # NotBuilt) =>
    IF DefinedRates = {}
    THEN logPublishRate = MAX_SAFE_INTEGER
    ELSE /\ logPublishRate.kind = "number"
         /\ logPublishRate.n \in DefinedRates
         /\ \A n \in DefinedRates : logPublishRate.n <= n

\* C22: in batching mode over an asynchronous transport, a collect of
\* severity error or fatal, or one that brings the number of buffered
\* entries above 8 or their size above 64,000, starts a flush inside the
\* call (a batch with everything buffered is sent or chained) and leaves the
\* buffer empty with size 0; any other collect starts no flush, keeps the
\* entry buffered and arms the idle timer.
C22_BatchingThresholds ==
  [][(transportAsync /\ asyncTransport = "true" /\ collected' = collected + 1) =>
       IF \/ lastCall'.entry[1].numeric <= 1
          \/ Len(entries) + 1 > 8
          \/ size + lastCall'.len > 64000
       THEN /\ entries' = <<>>
            /\ size' = 0
            /\ Len(chain') = Len(chain) + 1
            /\ chain'[Len(chain')].batch = Append(entries, collected')
            /\ flusher' = Len(chain')
       ELSE /\ entries' = Append(entries, collected')
            /\ size' = size + lastCall'.len
            /\ chain' = chain
            /\ sent' = sent
            /\ timeout'
            /\ timers' = timers + 1]_vars

\* two large entries below error severity crossed the size threshold: the
\* second collect flushed both while the first send was in flight
C22_Witness ==
  /\ transportAsync
  /\ lastCall.method = "info"
  /\ lastCall.len = 32001
  /\ entries = <<>>
  /\ size = 0
  /\ Len(chain) = 2
  /\ chain[1].st = "inflight"
  /\ chain[2].st = "chained"
  /\ Len(chain[2].batch) = 2
  /\ collected = 3

\* C23: a LogBuffer has at most one idle timer pending, the one its handle
\* refers to: a collect that arms the timer cancels the one armed before,
\* and a flush() that detached entries leaves none.
C23_SingleIdleTimer ==
  /\ timers <= 1
  /\ timers = 1 => timeout

\* C24: after any emit has returned, the events buffered in the emitter
\* total at most 64,000 bytes: an accepted emit that brings the total above
\* that starts a flush, also for the first event of a topic.
C24_BufferedSizeBounded == ebytes <= 64000

\* the sendEvents calls made so far for topic t, in call order
TopicCalls(t) == SelectSeq(esent, LAMBDA c : c.topic = t)

\* the events of a sequence of sendEvents calls, in the order they were handed over
RECURSIVE Flatten(_)
Flatten(calls) ==
  IF calls = <<>> THEN <<>> ELSE Head(calls).events \o Flatten(Tail(calls))

\* C25: flush rounds are serialized: a round's sendEvents calls have been
\* made only if every send of every earlier round has settled; no topic has
\* two batches in flight; and each topic's events reach the transport in
\* emission order.
C25_RoundsSerialized ==
  /\ \A r \in 1..Len(rounds) : rounds[r].run => RoundsSettled(r - 1)
  /\ \A t \in Topics :
       Cardinality({r \in 1..Len(rounds) : rounds[r].st[t] = "inflight"}) <= 1
  /\ \A t \in Topics :
       LET received == Flatten(TopicCalls(t))
       IN  \A i, j \in 1..Len(received) : i < j => received[i] < received[j]

\* a first round for topic a has settled, and the second round, chained on
\* it, has its sends for topics a and b in flight at the same time
C25_Witness ==
  /\ Len(rounds) = 2
  /\ rounds[1].st["a"] \in {"ok", "failed"}
  /\ rounds[2].st["a"] = "inflight"
  /\ rounds[2].st["b"] = "inflight"

\* C26: flush() called with no buffered events is a no-op: it makes no
\* sendEvents call and leaves the pending count and the size as they are, and
\* the promise it returns is not held back by a round that is still in flight
\* (it is pending at most until its own then-callback has run).
C26_EmptyFlushNoOp ==
  /\ [][(Len(rounds') = Len(rounds) + 1 /\ emitted = NoEvents) =>
          (/\ esent' = esent
           /\ buffered' = buffered
           /\ esize' = esize)]_vars
  /\ [](\A k \in 1..Len(rounds) :
          (rounds[k].batch = NoEvents /\ RoundOutcome(k) = "pending") =>
            \A r \in 1..(k - 1) : \A t \in Topics : rounds[r].st[t] # "inflight")

\* the events accepted by emit whose sendEvents call has not settled: those
\* still buffered, and those of rounds that are chained or in flight
Unsettled ==
  UNION {Range(emitted[t]) : t \in Topics}
    \cup UNION {Range(rounds[r].batch[t]) :
                 <<r, t>> \in {p \in (1..Len(rounds)) \X Topics :
                                rounds[p[1]].st[p[2]] \in {"none", "inflight"}}}

\* C27: the pending count equals the number of accepted events whose
\* sendEvents call has not settled; it is never negative, and it is 0 once
\* nothing is buffered and every round has settled, whether its sends
\* resolved or rejected.
C27_PendingCount ==
  /\ buffered = Cardinality(Unsettled)
  /\ buffered >= 0
  /\ (emitted = NoEvents /\ RoundsSettled(Len(rounds))) => buffered = 0

\* three events went out in two rounds, one send resolved and two were
\* rejected, and the count is back at 0
C27_Witness ==
  /\ accepted = 3
  /\ emitted = NoEvents
  /\ Len(rounds) = 2
  /\ RoundsSettled(2)
  /\ \E r \in 1..2 : \E t \in Topics : rounds[r].st[t] = "failed"
  /\ \E r \in 1..2 : \E t \in Topics : rounds[r].st[t] = "ok"
  /\ buffered = 0

\* C28: between operations the emitter's cumulative size is the sum of the
\* serialized lengths of the events that are buffered; it is 0 whenever no
\* event is buffered, also right after a flush started inside emit.
C28_SizeAccounting ==
  /\ esize = ebytes
  /\ emitted = NoEvents => esize = 0

\* C29: sendEntries is never called with an empty list of entries, whether
\* the transport is synchronous or asynchronous and however the first
\* collect, a flush and the deferred probe interleave.
C29_NoEmptyBatch == \A b \in 1..Len(sent) : sent[b] # <<>>

\* C30: the signals cascade: the outer signal is cancelled only after the
\* inner signal has been cancelled, whenever flush() of the context is called
\* and however long it takes.
C30_SignalsCascade == outerAborted => innerAborted

\* C31: emit is never refused with overflow while the pending count is 0:
\* with no backlog the event is accepted whatever the time left, also when
\* the deadline has passed.
C31_NoOverflowWhenIdle == lastEmit.outcome = "overflow" => lastEmit.pending > 0
====
